---- MODULE Spec2Model ----
(***************************************************************************)
(* gis.ph MCP gateway: the worker's router (fetch / the Hono app), the     *)
(* credential resolution, the per-connection session (McpAgent.init or     *)
(* buildMcpServer), the tool registry with its input schemas, and the      *)
(* upstream client gisApi.  The repository holds five variants of the      *)
(* worker; the model carries the variant as a value fixed in Init.         *)
(***************************************************************************)
EXTENDS Integers, Sequences, FiniteSets, TLC

VARIABLES
    variant,   \* which of the five worker sources is deployed
    req,       \* the last request handled by the router (NoReq before any)
    res,       \* the router's answer to req
    key,       \* per connection identity: the credential the tool handlers read
    actor,     \* per connection identity: "none" | "live" | "evicted"
    props,     \* per connection identity: props.apiKey of the running actor instance
    call       \* per connection identity: the tool invocation in progress or last ended

vars == <<variant, req, res, key, actor, props, call>>

----------------------------------------------------------------------------
(* Values *)

\* JS null / undefined: a header, query parameter or property that is absent.
Null == "<absent>"

\* The worker sources.
VInstanceKey == "instanceKey"      \* src/src/index.ts 1-205: McpAgent, this.key
VHono == "hono"                    \* src/src/index.ts 206-381: Hono, buildMcpServer, debug_key
VPersisted == "persisted"          \* src/src/index.ts 382-585: McpAgent, this.state.apiKey
VHeaderOnly == "headerOnly"        \* src/unnamed/part_000: McpAgent, props closure
VHonoDatasets == "honoDatasets"    \* src/unnamed/part_001: Hono, datasets and features

Variants == {VInstanceKey, VHono, VPersisted, VHeaderOnly, VHonoDatasets}
AgentVariants == {VInstanceKey, VPersisted, VHeaderOnly}
HonoVariants == {VHono, VHonoDatasets}

Keys == {"ABC", "SECRET"}
Conns == {"c1", "c2"}
Methods == {"GET", "POST", "OPTIONS"}
Paths == {"/", "/sse", "/sse/message", "/mcp", "/other"}
ProtectedPaths == {"/sse", "/sse/message", "/mcp"}
CredValues == {Null, ""} \cup Keys

\* A gate that takes only an absent credential for a missing one.
TruthyStr_PresentOnly(s) == s /= Null

\* JS truthiness of a string-or-absent value: if (apiKey), if (value).
TruthyStr(s) == s /= Null /\ s /= ""

\* a || b in place of a ?? b: an empty value falls through as an absent one does.
Coalesce_Or(a, b) == IF a /= Null /\ a /= "" THEN a ELSE b

\* JS a ?? b.
Coalesce(a, b) == IF a /= Null THEN a ELSE b

----------------------------------------------------------------------------
(* The router *)

\* The router's answer; apiKey is the credential it resolved (Null when it
\* answered before resolving one).
Answer(kind, status, apiKey, adapter) ==
    [kind |-> kind, status |-> status, apiKey |-> apiKey, adapter |-> adapter]

\* src/src/index.ts 157-205: header first, then query.
fetchInstanceKey(r) ==
    IF r.method = "OPTIONS" THEN Answer("cors", 200, Null, "none")
    ELSE IF r.path = "/" THEN Answer("info", 200, Null, "none")
    ELSE LET apiKey == Coalesce(r.header, Coalesce(r.query, ""))
         IN  IF ~TruthyStr(apiKey) THEN Answer("unauthorized", 401, apiKey, "none")
             ELSE IF r.path = "/mcp" THEN Answer("handoff", 200, apiKey, "serve")
             ELSE IF r.path = "/sse" \/ r.path = "/sse/message"
                  THEN Answer("handoff", 200, apiKey, "serveSSE")
             ELSE Answer("notfound", 404, apiKey, "none")

\* A router that looks at the path before the credential.
fetchPersisted_RouteFirst(r) ==
    IF r.method = "OPTIONS" THEN Answer("cors", 200, Null, "none")
    ELSE IF r.path = "/" THEN Answer("info", 200, Null, "none")
    ELSE IF r.path \notin {"/sse", "/sse/message", "/mcp"}
         THEN Answer("notfound", 404, Null, "none")
    ELSE LET apiKey == Coalesce(r.query, Coalesce(r.header, ""))
         IN  IF ~TruthyStr(apiKey) THEN Answer("unauthorized", 401, apiKey, "none")
             ELSE IF r.path = "/mcp" THEN Answer("handoff", 200, apiKey, "serve")
             ELSE Answer("handoff", 200, apiKey, "serveSSE")

\* src/src/index.ts 540-585: query first, then header.
fetchPersisted(r) ==
    IF r.method = "OPTIONS" THEN Answer("cors", 200, Null, "none")
    ELSE IF r.path = "/" THEN Answer("info", 200, Null, "none")
    ELSE LET apiKey == Coalesce(r.query, Coalesce(r.header, ""))
         IN  IF ~TruthyStr(apiKey) THEN Answer("unauthorized", 401, apiKey, "none")
             ELSE IF r.path = "/sse" \/ r.path = "/sse/message"
                  THEN Answer("handoff", 200, apiKey, "serveSSE")
             ELSE IF r.path = "/mcp" THEN Answer("handoff", 200, apiKey, "serve")
             ELSE Answer("notfound", 404, apiKey, "none")

\* src/unnamed/part_000 55-85: the header only, no pre-flight branch.
fetchHeaderOnly(r) ==
    LET apiKey == Coalesce(r.header, "")
    IN  IF ~TruthyStr(apiKey) /\ r.path /= "/" THEN Answer("unauthorized", 401, apiKey, "none")
        ELSE IF r.path = "/" THEN Answer("info", 200, apiKey, "none")
        ELSE IF r.path = "/sse" \/ r.path = "/sse/message"
             THEN Answer("handoff", 200, apiKey, "serveSSE")
        ELSE IF r.path = "/mcp" THEN Answer("handoff", 200, apiKey, "serve")
        ELSE Answer("notfound", 404, apiKey, "none")

\* src/src/index.ts 356-379 and src/unnamed/part_001 235-265: the Hono app
\* routes GET / and ALL /mcp, and answers 404 for everything else.
honoApp(r) ==
    IF r.path = "/" /\ r.method = "GET" THEN Answer("info", 200, Null, "none")
    ELSE IF r.path = "/mcp"
         THEN LET apiKey == Coalesce(r.query, Coalesce(r.header, ""))
              IN  IF ~TruthyStr(apiKey) THEN Answer("unauthorized", 401, apiKey, "none")
                  ELSE Answer("handoff", 200, apiKey, "hono")
    ELSE Answer("notfound", 404, Null, "none")

fetch(v, r) ==
    CASE v = VInstanceKey -> fetchInstanceKey(r)
      [] v = VPersisted -> fetchPersisted(r)
      [] v = VHeaderOnly -> fetchHeaderOnly(r)
      [] OTHER -> honoApp(r)

----------------------------------------------------------------------------
(* The session: what init() leaves as the credential the handlers read *)

\* An init() that writes props.apiKey into the state whatever it is.
init_Overwrite(v, k, p) ==
    CASE v = VInstanceKey -> Coalesce(p, "")
      [] v = VPersisted -> Coalesce(p, "")
      [] v = VHeaderOnly -> p
      [] OTHER -> k

\* GisPhMCP.init with props.apiKey = p on an actor whose stored credential is k.
init(v, k, p) ==
    CASE v = VInstanceKey -> Coalesce(p, "")                 \* index.ts 45
      [] v = VPersisted -> IF TruthyStr(p) THEN p ELSE k     \* index.ts 426-428
      [] v = VHeaderOnly -> p                                \* part_000 44
      [] OTHER -> k

\* The credential a fresh actor instance holds before init() runs.
freshKey(v, k) ==
    CASE v = VInstanceKey -> ""       \* index.ts 42: private key: string = ""
      [] v = VPersisted -> k          \* index.ts 417-422: state is persisted by the platform
      [] v = VHeaderOnly -> Null      \* part_000 44: no closure yet
      [] OTHER -> k

----------------------------------------------------------------------------
(* Argument values and input schemas *)

Absent == [t |-> "undefined"]
Str(s) == [t |-> "string", s |-> s]
Num(n) == [t |-> "number", n |-> n]
Bool(b) == [t |-> "boolean", b |-> b]
Obj(o) == [t |-> "object", o |-> o]
Arr(a) == [t |-> "array", a |-> a]

\* A presence test in place of truthiness: "" and 0 count as set.
Truthy_Defined(x) == x.t /= "undefined"

\* JS truthiness of an argument value: if (province_code), if (srid), if (include_features).
Truthy(x) ==
    CASE x.t = "undefined" -> FALSE
      [] x.t = "string" -> x.s /= ""
      [] x.t = "number" -> x.n /= 0
      [] x.t = "boolean" -> x.b
      [] OTHER -> TRUE

\* One parameter of a zod raw shape.
Param(required, type, enum) == [required |-> required, type |-> type, enum |-> enum]
ReqString == Param(TRUE, "string", {})
OptString == Param(FALSE, "string", {})
ReqNumber == Param(TRUE, "number", {})
OptNumber == Param(FALSE, "number", {})
OptBoolean == Param(FALSE, "boolean", {})

LocationTypes == {"province", "city", "municipality", "barangay"}
Levels == {"province", "city", "barangay"}
DataTypes == {"vector", "raster"}
GeometryTypes == {"POINT", "LINESTRING", "POLYGON", "MULTIPOINT", "MULTILINESTRING", "MULTIPOLYGON"}

\* src/src/index.ts 47-153 (and 245-351, 430-536: the same nine tools).
geoTools ==
    [ get_provinces |-> <<>>,
      get_province |-> [province_code |-> ReqString],
      get_cities |-> [province_code |-> OptString],
      get_city |-> [city_code |-> ReqString],
      get_barangays |-> [city_code |-> OptString, province_code |-> OptString],
      get_barangay |-> [barangay_code |-> ReqString],
      search_location |-> [query |-> ReqString, type |-> Param(FALSE, "enum", LocationTypes)],
      reverse_geocode |-> [lat |-> ReqNumber, lng |-> ReqNumber],
      get_demographics |-> [location_code |-> ReqString, level |-> Param(TRUE, "enum", Levels)] ]

\* src/src/index.ts 241-351: the nine tools and debug_key.
honoTools == [t \in DOMAIN geoTools \cup {"debug_key"} |->
                 IF t = "debug_key" THEN <<>> ELSE geoTools[t]]

\* src/unnamed/part_000 46-51: one tool is registered.
headerOnlyTools == [get_provinces |-> <<>>]

\* src/unnamed/part_001 41-230.
datasetTools ==
    [ get_regions |-> <<>>,
      get_region |-> [region_code |-> ReqString],
      get_provinces |-> <<>>,
      get_province |-> [province_code |-> ReqString],
      get_municities |-> [province_code |-> OptString],
      get_municity |-> [municity_code |-> ReqString],
      get_barangays |-> [municity_code |-> OptString, province_code |-> OptString],
      get_barangay |-> [barangay_code |-> ReqString],
      list_datasets |-> [include_features |-> OptBoolean],
      get_dataset |-> [dataset_id |-> ReqString],
      create_dataset |-> [name |-> ReqString, description |-> OptString,
                          data_type |-> Param(FALSE, "enum", DataTypes),
                          geometry_type |-> Param(FALSE, "enum", GeometryTypes),
                          srid |-> OptNumber],
      update_dataset |-> [dataset_id |-> ReqString, name |-> OptString,
                          description |-> OptString],
      list_features |-> <<>>,
      get_feature |-> [feature_id |-> ReqString],
      get_features_by_dataset |-> [dataset_id |-> ReqString],
      create_feature |-> [dataset_id |-> ReqString,
                          geometry |-> Param(TRUE, "geometry", {}),
                          properties |-> Param(FALSE, "record", {})] ]

\* The registry a session of variant v holds once its tools are registered.
registry(v) ==
    CASE v = VInstanceKey -> geoTools
      [] v = VPersisted -> geoTools
      [] v = VHono -> honoTools
      [] v = VHeaderOnly -> headerOnlyTools
      [] OTHER -> datasetTools

\* zod: does value x satisfy the declared type of parameter p?
typeOK(p, x) ==
    CASE p.type = "string" -> x.t = "string"
      [] p.type = "number" -> x.t = "number"
      [] p.type = "boolean" -> x.t = "boolean"
      [] p.type = "enum" -> x.t = "string" /\ x.s \in p.enum
      [] p.type = "geometry" ->
            /\ x.t = "object"
            /\ {"type", "coordinates"} \subseteq DOMAIN x.o
            /\ x.o.type.t = "string"
            /\ x.o.coordinates.t = "array"
      [] OTHER -> x.t = "object"

\* The argument a raw mapping gives for parameter name n (undefined when it has none).
argOf(raw, n) == IF n \in DOMAIN raw THEN raw[n] ELSE Absent

\* A validator that checks the types of the arguments given and not that the
\* required ones are there.
validate_IgnoreRequired(schema, raw) ==
    \A n \in DOMAIN schema :
        argOf(raw, n) /= Absent => typeOK(schema[n], argOf(raw, n))

\* z.object(shape).safeParse(raw): required parameters present and well typed,
\* optional ones absent or well typed.
validate(schema, raw) ==
    \A n \in DOMAIN schema :
        IF argOf(raw, n) = Absent THEN ~schema[n].required
        ELSE typeOK(schema[n], argOf(raw, n))

\* The parsed arguments: the shape's parameters only (unknown keys are stripped).
parsedArgs(schema, raw) == [n \in DOMAIN schema |-> argOf(raw, n)]

----------------------------------------------------------------------------
(* Tool handlers: the upstream request each handler asks gisApi for *)

\* An optional object: undefined, or the object's entries in insertion order.
None == [has |-> FALSE]
Some(x) == [has |-> TRUE, v |-> x]

\* What a handler passes to gisApi: the path and, when given, the query
\* parameters (insertion-ordered entries), the method and the body object.
Plan(path, params, method, body) ==
    [path |-> path, params |-> params, method |-> method, body |-> body]

\* An object entry set only when the value is truthy: if (x) params.k = x.
entryIf(k, x) == IF Truthy(x) THEN << <<k, x>> >> ELSE <<>>

\* String(x), `${x}`: the text of an argument placed in a path or a query.
String(x) ==
    CASE x.t = "string" -> x.s
      [] x.t = "number" -> ToString(x.n)
      [] x.t = "boolean" -> IF x.b THEN "true" ELSE "false"
      [] x.t = "undefined" -> "undefined"
      [] OTHER -> "[object Object]"

\* src/src/index.ts 47-153 (245-351, 430-536): the nine geographic tools.
geoHandler(tool, a) ==
    CASE tool = "get_provinces" -> Plan("/provinces", None, Null, None)
      [] tool = "get_province" ->
            Plan("/provinces/" \o String(a.province_code), None, Null, None)
      [] tool = "get_cities" ->
            Plan("/cities",
                 IF Truthy(a.province_code)
                 THEN Some(<< <<"province_code", a.province_code>> >>) ELSE None,
                 Null, None)
      [] tool = "get_city" -> Plan("/cities/" \o String(a.city_code), None, Null, None)
      [] tool = "get_barangays" ->
            Plan("/barangays",
                 Some(entryIf("city_code", a.city_code)
                          \o entryIf("province_code", a.province_code)),
                 Null, None)
      [] tool = "get_barangay" ->
            Plan("/barangays/" \o String(a.barangay_code), None, Null, None)
      [] tool = "search_location" ->
            Plan("/search", Some(<< <<"q", a.query>> >> \o entryIf("type", a.type)),
                 Null, None)
      [] tool = "reverse_geocode" ->
            Plan("/reverse-geocode",
                 Some(<< <<"lat", Str(String(a.lat))>>, <<"lng", Str(String(a.lng))>> >>),
                 Null, None)
      [] OTHER -> \* get_demographics
            Plan("/analytics/demographics",
                 Some(<< <<"code", a.location_code>>, <<"level", a.level>> >>),
                 Null, None)

\* src/unnamed/part_001 41-230: regions, provinces, municities, barangays,
\* datasets and features.
datasetHandler(tool, a) ==
    CASE tool = "get_regions" -> Plan("/regions", None, Null, None)
      [] tool = "get_region" -> Plan("/regions/" \o String(a.region_code), None, Null, None)
      [] tool = "get_provinces" -> Plan("/provinces", None, Null, None)
      [] tool = "get_province" ->
            Plan("/provinces/" \o String(a.province_code), None, Null, None)
      [] tool = "get_municities" ->
            IF Truthy(a.province_code)
            THEN Plan("/municities", Some(<< <<"province_code", a.province_code>> >>),
                      Null, None)
            ELSE Plan("/municities", None, Null, None)
      [] tool = "get_municity" ->
            Plan("/municities/" \o String(a.municity_code), None, Null, None)
      [] tool = "get_barangays" ->
            Plan("/barangays",
                 Some(entryIf("municity_code", a.municity_code)
                          \o entryIf("province_code", a.province_code)),
                 Null, None)
      [] tool = "get_barangay" ->
            Plan("/barangays/" \o String(a.barangay_code), None, Null, None)
      [] tool = "list_datasets" ->
            Plan("/datasets",
                 Some(IF Truthy(a.include_features)
                      THEN << <<"includeFeatures", Str("true")>> >> ELSE <<>>),
                 Null, None)
      [] tool = "get_dataset" -> Plan("/datasets/" \o String(a.dataset_id), None, Null, None)
      [] tool = "create_dataset" ->
            Plan("/datasets", None, "POST",
                 Some(<< <<"name", a.name>> >>
                          \o entryIf("description", a.description)
                          \o entryIf("data_type", a.data_type)
                          \o entryIf("geometry_type", a.geometry_type)
                          \o entryIf("srid", a.srid)))
      [] tool = "update_dataset" ->
            Plan("/datasets/" \o String(a.dataset_id), None, "PATCH",
                 Some(entryIf("name", a.name) \o entryIf("description", a.description)))
      [] tool = "list_features" -> Plan("/features", None, Null, None)
      [] tool = "get_feature" -> Plan("/features/" \o String(a.feature_id), None, Null, None)
      [] tool = "get_features_by_dataset" ->
            Plan("/features/dataset/" \o String(a.dataset_id), None, Null, None)
      [] OTHER -> \* create_feature
            Plan("/features", None, "POST",
                 Some(<< <<"dataset_id", a.dataset_id>>, <<"geometry", a.geometry>> >>
                          \o entryIf("properties", a.properties)))

\* The handler registered for a tool of variant v (debug_key apart: it calls no gisApi).
handler(v, tool, a) ==
    IF v = VHonoDatasets THEN datasetHandler(tool, a) ELSE geoHandler(tool, a)

----------------------------------------------------------------------------
(* The upstream client *)

BASE_URL == "https://api.gis.ph/v1"

\* The entries url.searchParams holds after the loop: if (value) set(key, value).
searchParams(params) ==
    IF ~params.has THEN <<>>
    ELSE SelectSeq(params.v, LAMBDA e : Truthy(e[2]))

RECURSIVE queryString(_)
\* URLSearchParams.toString() of entries whose keys and values need no escaping.
queryString(entries) ==
    IF entries = <<>> THEN ""
    ELSE IF Len(entries) = 1 THEN entries[1][1] \o "=" \o String(entries[1][2])
    ELSE entries[1][1] \o "=" \o String(entries[1][2]) \o "&" \o queryString(Tail(entries))

\* url.toString() for BASE_URL + path with the entries set on it.
urlOf(path, entries) ==
    IF entries = <<>> THEN BASE_URL \o path
    ELSE BASE_URL \o path \o "?" \o queryString(entries)

\* `Bearer ${apiKey}`: an undefined apiKey prints as "undefined".
bearer(apiKey) == "Bearer " \o (IF apiKey = Null THEN "undefined" ELSE apiKey)

\* Whether the variant's gisApi sends Content-Type: application/json.
\* index.ts 24-27, part_000 26-29, part_001 25-28 do; index.ts 228-230, 407-409 do not.
contentType(v) == IF v \in {VHono, VPersisted} THEN Null ELSE "application/json"

\* A client that drops options.method: every request goes out as GET.
gisApi_AlwaysGet(v, plan, apiKey) ==
    [ method |-> "GET",
      url |-> urlOf(plan.path, searchParams(plan.params)),
      entries |-> searchParams(plan.params),
      query |-> queryString(searchParams(plan.params)),
      authorization |-> bearer(apiKey),
      contentType |-> contentType(v),
      body |-> IF v = VHonoDatasets THEN plan.body ELSE None ]

\* The request gisApi hands to the platform fetch.
\* index.ts 11-28, 217-230, 396-409 and part_000 13-30 pass no method and no body;
\* part_001 12-30 passes options.method ?? "GET" and the body when it is truthy.
gisApi(v, plan, apiKey) ==
    [ method |-> IF v = VHonoDatasets THEN Coalesce(plan.method, "GET") ELSE "GET",
      url |-> urlOf(plan.path, searchParams(plan.params)),
      entries |-> searchParams(plan.params),
      query |-> queryString(searchParams(plan.params)),
      authorization |-> bearer(apiKey),
      contentType |-> contentType(v),
      body |-> IF v = VHonoDatasets THEN plan.body ELSE None ]

----------------------------------------------------------------------------
(* JSON texts: a text is a sequence of one-character strings *)

JNull == [j |-> "null"]
JBool(b) == [j |-> "bool", b |-> b]
JNum(n) == [j |-> "num", n |-> n]
JStr(s) == [j |-> "str", s |-> s]
JArr(a) == [j |-> "arr", a |-> a]
JObj(m) == [j |-> "obj", m |-> m]      \* m: the entries <<key text, value>> in order

DigitChars == <<"0", "1", "2", "3", "4", "5", "6", "7", "8", "9">>

RECURSIVE digits(_)
\* The decimal digits of a natural number.
digits(n) == IF n < 10 THEN <<DigitChars[n + 1]>>
             ELSE digits(n \div 10) \o <<DigitChars[(n % 10) + 1]>>

\* The text of an integer: String(n), and JSON's number syntax.
numberText(n) == IF n < 0 THEN <<"-">> \o digits(-n) ELSE digits(n)

spaces(k) == [i \in 1..k |-> " "]

RECURSIVE quoteChars(_)
\* The escaped characters of a string's content.
quoteChars(s) ==
    IF s = <<>> THEN <<>>
    ELSE (CASE s[1] = "\"" -> <<"\\", "\"">>
            [] s[1] = "\\" -> <<"\\", "\\">>
            [] s[1] = "\n" -> <<"\\", "n">>
            [] OTHER -> <<s[1]>>) \o quoteChars(Tail(s))

quote(s) == <<"\"">> \o quoteChars(s) \o <<"\"">>

RECURSIVE joinTexts(_, _)
\* The texts of a sequence joined by a separator.
joinTexts(items, sep) ==
    IF items = <<>> THEN <<>>
    ELSE IF Len(items) = 1 THEN items[1]
    ELSE items[1] \o sep \o joinTexts(Tail(items), sep)

RECURSIVE stringify(_, _, _)
\* JSON.stringify(v, null, gap) at indentation cur; gap = 0 is JSON.stringify(v).
stringify(v, gap, cur) ==
    LET inner == cur + gap
        open(c) == IF gap = 0 THEN <<c>> ELSE <<c, "\n">> \o spaces(inner)
        close(c) == IF gap = 0 THEN <<c>> ELSE <<"\n">> \o spaces(cur) \o <<c>>
        sep == IF gap = 0 THEN <<",">> ELSE <<",", "\n">> \o spaces(inner)
        colon == IF gap = 0 THEN <<":">> ELSE <<":", " ">>
    IN  CASE v.j = "null" -> <<"n", "u", "l", "l">>
          [] v.j = "bool" -> IF v.b THEN <<"t", "r", "u", "e">>
                             ELSE <<"f", "a", "l", "s", "e">>
          [] v.j = "num" -> numberText(v.n)
          [] v.j = "str" -> quote(v.s)
          [] v.j = "arr" ->
                IF v.a = <<>> THEN <<"[", "]">>
                ELSE open("[")
                     \o joinTexts([i \in 1..Len(v.a) |-> stringify(v.a[i], gap, inner)], sep)
                     \o close("]")
          [] OTHER ->
                IF v.m = <<>> THEN <<"{", "}">>
                ELSE open("{")
                     \o joinTexts([i \in 1..Len(v.m) |->
                                      quote(v.m[i][1]) \o colon
                                          \o stringify(v.m[i][2], gap, inner)], sep)
                     \o close("}")

\* The parser's result: ok, the value, and the index after it.
Parsed(v, i) == [ok |-> TRUE, v |-> v, i |-> i]
ParseFail == [ok |-> FALSE, v |-> JNull, i |-> 0]

IsWs(c) == c \in {" ", "\n", "\t", "\r"}
IsDigit(c) == c \in {"0", "1", "2", "3", "4", "5", "6", "7", "8", "9"}
digitValue(c) == CHOOSE d \in 0..9 : DigitChars[d + 1] = c

RECURSIVE skipWs(_, _)
skipWs(s, i) == IF i <= Len(s) /\ IsWs(s[i]) THEN skipWs(s, i + 1) ELSE i

\* Does text s hold the word w at index i?
hasWord(s, i, w) == i + Len(w) - 1 <= Len(s) /\ SubSeq(s, i, i + Len(w) - 1) = w

RECURSIVE parseDigits(_, _, _)
\* The digits from index i on, as a number continuing acc.
parseDigits(s, i, acc) ==
    IF i <= Len(s) /\ IsDigit(s[i]) THEN parseDigits(s, i + 1, acc * 10 + digitValue(s[i]))
    ELSE Parsed(acc, i)

\* An integer: -? (0 | [1-9][0-9]*), not followed by a fraction or an exponent.
parseNumber(s, i) ==
    LET neg == i <= Len(s) /\ s[i] = "-"
        j == IF neg THEN i + 1 ELSE i
    IN  IF ~(j <= Len(s) /\ IsDigit(s[j])) THEN ParseFail
        ELSE LET d == IF s[j] = "0" THEN Parsed(0, j + 1) ELSE parseDigits(s, j, 0)
             IN  IF d.i <= Len(s) /\ (IsDigit(s[d.i]) \/ s[d.i] \in {".", "e", "E"})
                 THEN ParseFail
                 ELSE Parsed(JNum(IF neg THEN -d.v ELSE d.v), d.i)

RECURSIVE parseChars(_, _, _)
\* The content of a string from index i (after the opening quote) on.
parseChars(s, i, acc) ==
    IF i > Len(s) THEN ParseFail
    ELSE IF s[i] = "\"" THEN Parsed(JStr(acc), i + 1)
    ELSE IF s[i] = "\n" THEN ParseFail
    ELSE IF s[i] = "\\"
         THEN IF i + 1 > Len(s) THEN ParseFail
              ELSE IF s[i + 1] \in {"\"", "\\"} THEN parseChars(s, i + 2, acc \o <<s[i + 1]>>)
              ELSE IF s[i + 1] = "n" THEN parseChars(s, i + 2, acc \o <<"\n">>)
              ELSE ParseFail
    ELSE parseChars(s, i + 1, acc \o <<s[i]>>)

parseString(s, i) ==
    IF i <= Len(s) /\ s[i] = "\"" THEN parseChars(s, i + 1, <<>>) ELSE ParseFail

RECURSIVE parseValue(_, _)
RECURSIVE parseElements(_, _, _)
RECURSIVE parseMembers(_, _, _)

\* The elements of an array from index i (at an element) on.
parseElements(s, i, acc) ==
    LET e == parseValue(s, i)
    IN  IF ~e.ok THEN ParseFail
        ELSE LET j == skipWs(s, e.i)
             IN  IF j > Len(s) THEN ParseFail
                 ELSE IF s[j] = "]" THEN Parsed(JArr(Append(acc, e.v)), j + 1)
                 ELSE IF s[j] = "," THEN parseElements(s, skipWs(s, j + 1), Append(acc, e.v))
                 ELSE ParseFail

\* The members of an object from index i (at a key) on.
parseMembers(s, i, acc) ==
    LET k == parseString(s, i)
    IN  IF ~k.ok THEN ParseFail
        ELSE LET c == skipWs(s, k.i)
             IN  IF ~(c <= Len(s) /\ s[c] = ":") THEN ParseFail
                 ELSE LET e == parseValue(s, skipWs(s, c + 1))
                      IN  IF ~e.ok THEN ParseFail
                          ELSE LET j == skipWs(s, e.i)
                                   m == Append(acc, <<k.v.s, e.v>>)
                               IN  IF j > Len(s) THEN ParseFail
                                   ELSE IF s[j] = "}" THEN Parsed(JObj(m), j + 1)
                                   ELSE IF s[j] = ","
                                        THEN parseMembers(s, skipWs(s, j + 1), m)
                                   ELSE ParseFail

\* One JSON value at index i.
parseValue(s, i) ==
    IF i > Len(s) THEN ParseFail
    ELSE CASE s[i] = "n" -> IF hasWord(s, i, <<"n", "u", "l", "l">>)
                            THEN Parsed(JNull, i + 4) ELSE ParseFail
           [] s[i] = "t" -> IF hasWord(s, i, <<"t", "r", "u", "e">>)
                            THEN Parsed(JBool(TRUE), i + 4) ELSE ParseFail
           [] s[i] = "f" -> IF hasWord(s, i, <<"f", "a", "l", "s", "e">>)
                            THEN Parsed(JBool(FALSE), i + 5) ELSE ParseFail
           [] s[i] = "\"" -> parseString(s, i)
           [] s[i] = "[" ->
                 LET j == skipWs(s, i + 1)
                 IN  IF j <= Len(s) /\ s[j] = "]" THEN Parsed(JArr(<<>>), j + 1)
                     ELSE parseElements(s, j, <<>>)
           [] s[i] = "{" ->
                 LET j == skipWs(s, i + 1)
                 IN  IF j <= Len(s) /\ s[j] = "}" THEN Parsed(JObj(<<>>), j + 1)
                     ELSE parseMembers(s, j, <<>>)
           [] OTHER -> parseNumber(s, i)

\* JSON.parse(s) / response.json(): a whole text is one value between white space.
parseJSON(s) ==
    LET r == parseValue(s, skipWs(s, 1))
    IN  IF r.ok /\ skipWs(s, r.i) = Len(s) + 1 THEN r ELSE ParseFail

----------------------------------------------------------------------------
(* Tool dispatch and its outcome *)

NoInv == [tool |-> "<none>", args |-> <<>>]

\* Does request r carry a tool invocation?
HasInv(r) == r.inv.tool /= "<none>"

TextBlock(text) == [type |-> "text", text |-> text]

\* The state of one invocation.  phase: "idle" | "awaiting" (the upstream call is
\* in flight) | "done".  error: "none" | "UnknownTool" | "InvalidArguments" |
\* "UpstreamError" | "ProtocolViolation".
Invocation(phase, inv, error, handlerRan, calls, request, response, content, isError) ==
    [ phase |-> phase, inv |-> inv, error |-> error, handlerRan |-> handlerRan,
      calls |-> calls, request |-> request, response |-> response,
      content |-> content, isError |-> isError ]

Idle == Invocation("idle", NoInv, "none", FALSE, 0, None, None, <<>>, FALSE)

KeyChars == [k \in {"ABC", "SECRET"} |->
                IF k = "ABC" THEN <<"A", "B", "C">> ELSE <<"S", "E", "C", "R", "E", "T">>]

\* src/src/index.ts 241-243: debug_key answers without calling gisApi.
debugKey(inv, apiKey) ==
    LET chars == KeyChars[apiKey]
        preview == SubSeq(chars, 1, IF Len(chars) < 4 THEN Len(chars) ELSE 4)
        text == stringify(JObj(<< <<<<"k", "e", "y", "_", "l", "e", "n", "g", "t", "h">>,
                                     JNum(Len(chars))>>,
                                   <<<<"k", "e", "y", "_", "p", "r", "e", "v", "i", "e", "w">>,
                                     JStr(preview)>> >>), 0, 0)
    IN  Invocation("done", inv, "none", TRUE, 0, None, None, <<TextBlock(text)>>, FALSE)

\* McpServer's tools/call for invocation inv on a session of variant v whose
\* handlers read the credential apiKey: look the tool up, validate the arguments
\* against its shape, run the handler up to the await of the upstream fetch.
dispatch(v, inv, apiKey) ==
    IF inv.tool \notin DOMAIN registry(v)
    THEN Invocation("done", inv, "UnknownTool", FALSE, 0, None, None, <<>>, TRUE)
    ELSE IF ~validate(registry(v)[inv.tool], inv.args)
    THEN Invocation("done", inv, "InvalidArguments", FALSE, 0, None, None, <<>>, TRUE)
    ELSE IF inv.tool = "debug_key" THEN debugKey(inv, apiKey)
    ELSE Invocation("awaiting", inv, "none", TRUE, 1,
                    Some(gisApi(v, handler(v, inv.tool,
                                           parsedArgs(registry(v)[inv.tool], inv.args)),
                                apiKey)),
                    None, <<>>, FALSE)

\* response.ok
ok(status) == status >= 200 /\ status <= 299

\* "gis.ph API error "
ErrorPrefix == <<"g", "i", "s", ".", "p", "h", " ", "A", "P", "I", " ",
                 "e", "r", "r", "o", "r", " ">>

\* An error message that leaves the body text out.
errorMessage_StatusOnly(status, body) == ErrorPrefix \o numberText(status)

\* `gis.ph API error ${response.status}: ${error}`
errorMessage(status, body) == ErrorPrefix \o numberText(status) \o <<":", " ">> \o body

\* The message of the SyntaxError response.json() throws on a body that is not JSON.
SyntaxErrorMessage == <<"S", "y", "n", "t", "a", "x", "E", "r", "r", "o", "r">>

\* Handlers that serialize without indentation: JSON.stringify(data).
settle_Compact(c, rsp) ==
    IF ~ok(rsp.status)
    THEN [c EXCEPT !.phase = "done", !.error = "UpstreamError", !.response = Some(rsp),
                   !.content = <<TextBlock(errorMessage(rsp.status, rsp.body))>>,
                   !.isError = TRUE]
    ELSE LET data == parseJSON(rsp.body)
         IN  IF ~data.ok
             THEN [c EXCEPT !.phase = "done", !.error = "ProtocolViolation",
                            !.response = Some(rsp),
                            !.content = <<TextBlock(SyntaxErrorMessage)>>,
                            !.isError = TRUE]
             ELSE [c EXCEPT !.phase = "done", !.response = Some(rsp),
                            !.content = <<TextBlock(stringify(data.v, 0, 0))>>]

\* The rest of gisApi and of the handler once the upstream answers rsp: a
\* response that is not ok throws with the status and the body text, an ok one
\* is parsed and pretty-printed into the single text block.  McpServer turns a
\* thrown error into an isError result carrying the error's message.
settle(c, rsp) ==
    IF ~ok(rsp.status)
    THEN [c EXCEPT !.phase = "done", !.error = "UpstreamError", !.response = Some(rsp),
                   !.content = <<TextBlock(errorMessage(rsp.status, rsp.body))>>,
                   !.isError = TRUE]
    ELSE LET data == parseJSON(rsp.body)
         IN  IF ~data.ok
             THEN [c EXCEPT !.phase = "done", !.error = "ProtocolViolation",
                            !.response = Some(rsp),
                            !.content = <<TextBlock(SyntaxErrorMessage)>>,
                            !.isError = TRUE]
             ELSE [c EXCEPT !.phase = "done", !.response = Some(rsp),
                            !.content = <<TextBlock(stringify(data.v, 2, 0))>>]

----------------------------------------------------------------------------
(* Actions *)

NoReq == [method |-> "<none>", path |-> "", header |-> Null, query |-> Null,
          conn |-> "c1", inv |-> NoInv]
NoRes == [kind |-> "<none>", status |-> 0, apiKey |-> Null, adapter |-> "none",
          bound |-> FALSE, calls |-> 0]

Outcome(a, bound, calls) ==
    [kind |-> a.kind, status |-> a.status, apiKey |-> a.apiKey, adapter |-> a.adapter,
     bound |-> bound, calls |-> calls]

\* this.props of a connection with no running actor instance.
NoProps == "<none>"

Init ==
    /\ variant \in Variants
    /\ req = NoReq
    /\ res = NoRes
    /\ key = [c \in Conns |-> freshKey(variant, "")]
    /\ actor = [c \in Conns |-> "none"]
    /\ props = [c \in Conns |-> NoProps]
    /\ call = [c \in Conns |-> Idle]

\* Is the router holding a request it has not answered yet?
Handling == req.method /= "<none>"

\* A worker that keeps the credential in one place for all connections.
Fetch_SharedKey(r) ==
    LET a == fetch(variant, r)
        c == r.conn
        starts == variant \in HonoVariants \/ actor[c] /= "live"
        k == IF variant \in HonoVariants THEN a.apiKey           \* buildMcpServer(apiKey)
             ELSE IF actor[c] /= "live" THEN init(variant, key[c], a.apiKey)
             ELSE key[c]
        d == IF HasInv(r) THEN dispatch(variant, r.inv, k) ELSE call[c]
    IN  /\ ~Handling
        /\ req' = r
        /\ UNCHANGED variant
        /\ IF a.kind /= "handoff"
           THEN /\ res' = Outcome(a, FALSE, 0)
                /\ UNCHANGED <<key, actor, props, call>>
           ELSE /\ HasInv(r) => call[c].phase = "idle"
                /\ res' = Outcome(a, starts, IF HasInv(r) THEN d.calls ELSE 0)
                /\ key' = [x \in Conns |-> k]
                /\ actor' = IF variant \in HonoVariants THEN actor
                            ELSE [actor EXCEPT ![c] = "live"]
                /\ props' = IF variant \in HonoVariants \/ actor[c] = "live" THEN props
                            ELSE [props EXCEPT ![c] = a.apiKey]
                /\ call' = [call EXCEPT ![c] = d]

\* The worker handles request r: the router, and on a hand-off the transport
\* adapter, which starts the connection's actor (init) when it is not running,
\* or builds the request's own server (Hono), and dispatches the invocation the
\* request carries up to the await of its upstream call.
Fetch(r) ==
    LET a == fetch(variant, r)
        c == r.conn
        starts == variant \in HonoVariants \/ actor[c] /= "live"
        k == IF variant \in HonoVariants THEN a.apiKey           \* buildMcpServer(apiKey)
             ELSE IF actor[c] /= "live" THEN init(variant, key[c], a.apiKey)
             ELSE key[c]
        d == IF HasInv(r) THEN dispatch(variant, r.inv, k) ELSE call[c]
    IN  /\ ~Handling
        /\ req' = r
        /\ UNCHANGED variant
        /\ IF a.kind /= "handoff"
           THEN /\ res' = Outcome(a, FALSE, 0)
                /\ UNCHANGED <<key, actor, props, call>>
           ELSE /\ HasInv(r) => call[c].phase = "idle"
                /\ res' = Outcome(a, starts, IF HasInv(r) THEN d.calls ELSE 0)
                /\ key' = [key EXCEPT ![c] = k]
                /\ actor' = IF variant \in HonoVariants THEN actor
                            ELSE [actor EXCEPT ![c] = "live"]
                /\ props' = IF variant \in HonoVariants \/ actor[c] = "live" THEN props
                            ELSE [props EXCEPT ![c] = a.apiKey]
                /\ call' = [call EXCEPT ![c] = d]

\* The router's answer to the request leaves the worker.
Return ==
    /\ Handling
    /\ req' = NoReq
    /\ res' = NoRes
    /\ UNCHANGED <<variant, key, actor, props, call>>

\* A worker that hands out results only while no upstream call of another
\* connection is pending.
Deliver_Serialized(c) ==
    /\ call[c].phase = "done"
    /\ \A x \in Conns \ {c} : call[x].phase /= "awaiting"
    /\ call' = [call EXCEPT ![c] = Idle]
    /\ UNCHANGED <<variant, req, res, key, actor, props>>

\* The result of the ended invocation on connection c reaches its caller.
Deliver(c) ==
    /\ call[c].phase = "done"
    /\ call' = [call EXCEPT ![c] = Idle]
    /\ UNCHANGED <<variant, req, res, key, actor, props>>

\* The upstream answers the call in flight on connection c.
Respond(c, rsp) ==
    /\ call[c].phase = "awaiting"
    /\ call' = [call EXCEPT ![c] = settle(call[c], rsp)]
    /\ UNCHANGED <<variant, req, res, key, actor, props>>

\* The platform evicts the idle actor of connection c: instance fields are
\* lost, persisted state is kept.
Evict(c) ==
    /\ variant \in AgentVariants
    /\ actor[c] = "live"
    /\ call[c].phase /= "awaiting"
    /\ actor' = [actor EXCEPT ![c] = "evicted"]
    /\ key' = [key EXCEPT ![c] = freshKey(variant, key[c])]
    /\ props' = [props EXCEPT ![c] = NoProps]
    /\ UNCHANGED <<variant, req, res, call>>

\* The platform resumes the evicted actor of connection c and runs init()
\* with props.apiKey = p.
Resume(c, p) ==
    /\ variant \in AgentVariants
    /\ actor[c] = "evicted"
    /\ actor' = [actor EXCEPT ![c] = "live"]
    /\ key' = [key EXCEPT ![c] = init(variant, key[c], p)]
    /\ props' = [props EXCEPT ![c] = p]
    /\ UNCHANGED <<variant, req, res, call>>

----------------------------------------------------------------------------
(* Inputs *)

\* The largest number of items in a generated list payload.
MaxItems == 2

Inv(tool, args) == [tool |-> tool, args |-> args]

CodeArgs == {Absent, Str(""), Str("0128"), Num(7)}
FilterArgs == {Absent, Str(""), Str("0128")}
QueryArgs == {Absent, Str(""), Str("Quezon"), Num(7)}
TypeArgs == {Absent, Str("city"), Str("island")}
LevelArgs == {Absent, Str("province"), Str("island")}
CoordArgs == {Absent, Num(0), Num(14), Str("14")}
SridArgs == {Absent, Num(0), Num(4326), Str("x")}
FlagArgs == {Absent, Bool(TRUE), Bool(FALSE), Str("true")}
TextArgs == {Absent, Str(""), Str("roads")}
NameArgs == {Absent, Str(""), Str("roads"), Num(7)}
GeometryArgs == {Absent, Obj([type |-> Str("Point"), coordinates |-> Arr(<<121, 14>>)]),
                 Obj([type |-> Str("Point")])}
PropertyArgs == {Absent, Obj([kind |-> Str("road")])}

\* Raw argument mappings: a parameter mapped to Absent is one the caller left out.
GeoInvocations ==
    {Inv("get_provinces", <<>>)}
    \cup {Inv("get_province", a) : a \in [province_code : CodeArgs]}
    \cup {Inv("get_cities", a) : a \in [province_code : CodeArgs]}
    \cup {Inv("get_city", a) : a \in [city_code : CodeArgs]}
    \cup {Inv("get_barangays", a) :
             a \in [city_code : FilterArgs, municity_code : FilterArgs,
                    province_code : FilterArgs]}
    \cup {Inv("get_barangay", a) : a \in [barangay_code : CodeArgs]}
    \cup {Inv("search_location", a) : a \in [query : QueryArgs, type : TypeArgs]}
    \cup {Inv("reverse_geocode", a) : a \in [lat : CoordArgs, lng : CoordArgs]}
    \cup {Inv("get_demographics", a) : a \in [location_code : CodeArgs, level : LevelArgs]}
    \cup {Inv("debug_key", <<>>), Inv("no_such_tool", <<>>)}

DatasetInvocations ==
    {Inv("get_regions", <<>>), Inv("list_features", <<>>)}
    \cup {Inv("get_region", a) : a \in [region_code : CodeArgs]}
    \cup {Inv("get_municities", a) : a \in [province_code : CodeArgs]}
    \cup {Inv("get_municity", a) : a \in [municity_code : CodeArgs]}
    \cup {Inv("list_datasets", a) : a \in [include_features : FlagArgs]}
    \cup {Inv("get_dataset", a) : a \in [dataset_id : CodeArgs]}
    \cup {Inv("create_dataset", a) :
             a \in [name : NameArgs, description : TextArgs, data_type : {Absent, Str("vector")},
                    geometry_type : {Absent, Str("POINT"), Str("CIRCLE")}, srid : SridArgs]}
    \cup {Inv("update_dataset", a) :
             a \in [dataset_id : CodeArgs, name : TextArgs, description : TextArgs]}
    \cup {Inv("get_feature", a) : a \in [feature_id : CodeArgs]}
    \cup {Inv("get_features_by_dataset", a) : a \in [dataset_id : CodeArgs]}
    \cup {Inv("create_feature", a) :
             a \in [dataset_id : CodeArgs, geometry : GeometryArgs, properties : PropertyArgs]}

Invocations == GeoInvocations \cup DatasetInvocations

Request(method, path, header, query, conn, inv) ==
    [method |-> method, path |-> path, header |-> header, query |-> query,
     conn |-> conn, inv |-> inv]

\* Every method, path and credential combination, on one connection.
RouterRequests ==
    {Request(m, p, h, q, "c1", i) :
        m \in Methods, p \in Paths, h \in CredValues, q \in CredValues,
        i \in {NoInv, Inv("get_provinces", <<>>)}}

\* Calls of established sessions: two connections, either credential or none.
SessionRequests ==
    {Request("POST", p, h, Null, c, Inv("get_provinces", <<>>)) :
        p \in {"/mcp", "/sse/message"}, h \in {Null} \cup Keys, c \in Conns}

\* One authenticated call carrying each invocation.
ToolRequests == {Request("POST", "/mcp", "ABC", Null, "c1", i) : i \in Invocations}

Chars(word) ==
    CASE word = "code" -> <<"c", "o", "d", "e">>
      [] word = "0128" -> <<"0", "1", "2", "8">>
      [] word = "name" -> <<"n", "a", "m", "e">>
      [] word = "population" -> <<"p", "o", "p", "u", "l", "a", "t", "i", "o", "n">>
      [] word = "data" -> <<"d", "a", "t", "a">>
      [] word = "error" -> <<"e", "r", "r", "o", "r">>
      [] word = "Not found" -> <<"N", "o", "t", " ", "f", "o", "u", "n", "d">>
      [] OTHER -> <<"L", "a", " ", "\"", "U", "\\", "n", "\n", "i", "o", "n", "\"">>

\* A province record; its name holds a quote, a backslash and a line break.
Province(n) ==
    JObj(<< <<Chars("code"), JStr(Chars("0128"))>>,
            <<Chars("name"), JStr(Chars("La Union"))>>,
            <<Chars("population"), JNum(n * 81)>> >>)

Payloads ==
    {JNull, JBool(TRUE), JBool(FALSE), JNum(0), JNum(-12), JStr(<<>>), JObj(<<>>),
     JObj(<< <<Chars("data"), JArr(<<JNum(1), JArr(<<>>), JNull>>)>>,
             <<Chars("error"), JBool(FALSE)>> >>)}
    \cup {JArr([i \in 1..n |-> Province(i)]) : n \in 0..MaxItems}

\* What the upstream sends: compact or indented JSON, or text that is no JSON.
Bodies ==
    {stringify(p, 0, 0) : p \in Payloads}
    \cup {<<" ">> \o stringify(p, 2, 0) \o <<"\n">> : p \in {Province(1)}}
    \cup {<<>>, Chars("Not found"), <<"{", "\"", "a", "\"", ":", "}">>, <<"0", "1">>}

Statuses == {200, 299, 300, 404, 500}

Responses == [status : Statuses, body : Bodies]

\* An ok response and a failing one.
FewResponses == {[status |-> 200, body |-> <<"[", "]">>],
                 [status |-> 500, body |-> Chars("Not found")]}

PropsValues == {Null, ""} \cup Keys

----------------------------------------------------------------------------
(* Specifications *)

\* The router under every request shape.
Next ==
    \/ \E r \in RouterRequests : Fetch(r)
    \/ \E rsp \in FewResponses : Respond("c1", rsp)
    \/ Return
    \/ Deliver("c1")

Spec == Init /\ [][Next]_vars

\* Sessions over two connections, with eviction and resumption of actors.
NextSession ==
    \/ \E r \in SessionRequests : Fetch(r)
    \/ \E c \in Conns, rsp \in FewResponses : Respond(c, rsp)
    \/ \E c \in Conns : Evict(c)
    \/ \E c \in Conns, p \in PropsValues : Resume(c, p)
    \/ Return
    \/ \E c \in Conns : Deliver(c)

SpecSession == Init /\ [][NextSession]_vars

\* The same, with the event loop's guarantee that a handler whose upstream
\* call has settled runs to its return and that a computed answer is sent.
\* Nothing obliges the upstream to answer: there is no timeout in gisApi.
SpecLive ==
    /\ Init
    /\ [][NextSession]_vars
    /\ \A c \in Conns : WF_vars(Deliver(c))
    /\ WF_vars(Return)

\* Every tool invocation and every upstream response on one session.
NextTools ==
    \/ \E r \in ToolRequests : Fetch(r)
    \/ \E rsp \in Responses : Respond("c1", rsp)
    \/ Return
    \/ Deliver("c1")

SpecTools == Init /\ [][NextTools]_vars

----------------------------------------------------------------------------
(* Claims *)

\* The request in hand names a protected path and carries no credential:
\* header and query parameter are each absent or empty.
NoCredentialOnProtected ==
    /\ Handling
    /\ req.path \in ProtectedPaths
    /\ req.header \in {Null, ""}
    /\ req.query \in {Null, ""}

\* The request in hand started no session, reached no transport adapter and
\* caused no upstream call.
NothingStarted == res.kind /= "handoff" /\ res.adapter = "none" /\ ~res.bound /\ res.calls = 0

\* C1 as stated: every request to /sse, /sse/message or /mcp without a
\* credential in header and query is answered 401, starts no session, is not
\* handed to a transport adapter and causes no upstream call.
C1_Original ==
    NoCredentialOnProtected => res.status = 401 /\ res.kind = "unauthorized" /\ NothingStarted

\* The requests without a credential that the router answers otherwise than by
\* 401: a pre-flight in the variants with a CORS branch, and a path the Hono
\* app does not route.
AnsweredBeforeGate ==
    \/ variant \in {VInstanceKey, VPersisted} /\ req.method = "OPTIONS"
    \/ variant \in HonoVariants /\ req.path /= "/mcp"

\* C1 amended: such a request never starts a session, never reaches a transport
\* adapter and causes no upstream call; it is answered 401, except that an
\* OPTIONS request gets the CORS answer where the worker has a pre-flight
\* branch, and /sse and /sse/message get 404 from the Hono app.
C1_Gate ==
    NoCredentialOnProtected =>
        /\ NothingStarted
        /\ IF AnsweredBeforeGate
           THEN res.kind \in {"cors", "notfound"} /\ res.status /= 401
           ELSE res.kind = "unauthorized" /\ res.status = 401

\* A request carrying an invocation and an empty header is turned away with 401.
C1_Witness ==
    /\ NoCredentialOnProtected
    /\ HasInv(req)
    /\ req.header = ""
    /\ res.status = 401

\* The first non-empty of header and query, "" when there is none.
FirstNonEmpty(h, q) == IF h \notin {Null, ""} THEN h ELSE IF q \notin {Null, ""} THEN q ELSE ""

\* C4 as stated: the resolved credential is the first non-empty value in the
\* order header, query, and absent only when both are absent or empty.
C4_Original ==
    Handling /\ res.apiKey /= Null => res.apiKey = FirstNonEmpty(req.header, req.query)

\* The sources a variant reads, in its order.
FirstSource == IF variant \in {VInstanceKey, VHeaderOnly} THEN req.header ELSE req.query
SecondSource == CASE variant = VInstanceKey -> req.query
                  [] variant = VHeaderOnly -> Null
                  [] OTHER -> req.header

\* C4 amended: the resolved credential is the first value that is present (an
\* empty one counts) in the variant's own order: header then query in the
\* instance-key worker, query then header in the persisted and Hono workers,
\* the header alone in the header-only worker; it is absent when both are
\* absent or empty.
C4_Resolved ==
    Handling /\ res.apiKey /= Null =>
        /\ FirstSource /= Null => res.apiKey = FirstSource
        /\ FirstSource = Null /\ SecondSource /= Null => res.apiKey = SecondSource
        /\ FirstSource = Null /\ SecondSource = Null => res.apiKey = ""
        /\ req.header \in {Null, ""} /\ req.query \in {Null, ""} => res.apiKey = ""

\* Header and query carry different credentials and the query one is taken.
C4_Witness ==
    /\ Handling
    /\ variant = VPersisted
    /\ req.header = "SECRET"
    /\ req.query = "ABC"
    /\ res.apiKey = "ABC"
    /\ res.kind = "handoff"

\* C2 as stated: in the persisted worker a stored non-empty credential of a
\* connection never changes again, whatever credential a later initialization
\* for that connection carries.
C2_Original ==
    [][variant = VPersisted =>
          \A c \in Conns : key[c] \notin {Null, ""} => key'[c] = key[c]]_vars

\* The request in hand reached the worker with no credential while its
\* connection has one stored, and carries a tool invocation.
LaterCallWithoutCredential ==
    /\ variant = VPersisted
    /\ NoCredentialOnProtected
    /\ HasInv(req)
    /\ key[req.conn] \notin {Null, ""}

\* C3 as stated: in the persisted worker a later call of a session whose
\* credential K is stored, carrying no credential itself, is dispatched and its
\* invocation goes upstream with Authorization: Bearer K.
C3_Original ==
    LaterCallWithoutCredential =>
        /\ res.kind = "handoff"
        /\ res.calls = 1
        /\ call[req.conn].request.has =>
               call[req.conn].request.v.authorization = "Bearer " \o key[req.conn]

\* The schema of the tool an invocation names, in the deployed worker.
SchemaOf(i) == registry(variant)[i.tool]

\* The primitive type a parameter's declaration asks for.
PrimitiveOf(p) ==
    CASE p.type \in {"string", "enum"} -> "string"
      [] p.type = "number" -> "number"
      [] p.type = "boolean" -> "boolean"
      [] OTHER -> "object"

\* The invocation names a registered tool and lacks one of its required
\* parameters, or gives it a value of another primitive type.
LacksRequired(i) ==
    /\ i.tool \in DOMAIN registry(variant)
    /\ \E n \in DOMAIN SchemaOf(i) :
          /\ SchemaOf(i)[n].required
          /\ \/ argOf(i.args, n) = Absent
             \/ argOf(i.args, n).t /= PrimitiveOf(SchemaOf(i)[n])

\* C5: an invocation that lacks a required parameter, or gives it the wrong
\* primitive type, ends with an InvalidArguments tool-level error; its
\* handler is not run and no upstream call is issued.
C5_Rejected ==
    \A c \in Conns :
        call[c].phase /= "idle" /\ LacksRequired(call[c].inv) =>
            /\ call[c].phase = "done"
            /\ call[c].error = "InvalidArguments"
            /\ call[c].isError
            /\ ~call[c].handlerRan
            /\ call[c].calls = 0
            /\ ~call[c].request.has
            /\ ~call[c].response.has

\* create_dataset with a number for its name is rejected.
C5_Witness ==
    /\ variant = VHonoDatasets
    /\ call["c1"].inv.tool = "create_dataset"
    /\ call["c1"].inv.args.name = Num(7)
    /\ call["c1"].error = "InvalidArguments"

\* The query key a parameter is routed to.
QueryKey(n) == IF n = "include_features" THEN "includeFeatures" ELSE n

\* C6: in the upstream request of a GET tool no query entry exists for an
\* optional parameter that is unset or the empty string; search_location with
\* query "Quezon" and no type sends exactly q=Quezon.
C6_Omitted ==
    \A c \in Conns :
        call[c].request.has /\ call[c].request.v.method = "GET" =>
            LET i == call[c].inv
                rq == call[c].request.v
            IN  /\ \A n \in DOMAIN SchemaOf(i) :
                       ~SchemaOf(i)[n].required /\ argOf(i.args, n) \in {Absent, Str("")} =>
                           \A e \in 1..Len(rq.entries) : rq.entries[e][1] /= QueryKey(n)
                /\ i.tool = "search_location" /\ i.args.query = Str("Quezon")
                       /\ i.args.type = Absent =>
                           /\ rq.query = "q=Quezon"
                           /\ rq.url = "https://api.gis.ph/v1/search?q=Quezon"

\* get_barangays with an empty city_code and a province_code sends the latter only.
C6_Witness ==
    /\ variant = VInstanceKey
    /\ call["c1"].inv.tool = "get_barangays"
    /\ call["c1"].inv.args.city_code = Str("")
    /\ call["c1"].request.has
    /\ call["c1"].request.v.query = "province_code=0128"

RECURSIVE StringEnd(_, _)
\* The index after the closing quote of the string whose content starts at i.
StringEnd(s, i) ==
    IF i > Len(s) THEN i
    ELSE IF s[i] = "\\" THEN StringEnd(s, i + 2)
    ELSE IF s[i] = "\"" THEN i + 1
    ELSE StringEnd(s, i + 1)

RECURSIVE SkipSpaces(_, _)
SkipSpaces(s, i) == IF i <= Len(s) /\ s[i] = " " THEN SkipSpaces(s, i + 1) ELSE i

RECURSIVE Indented(_, _, _)
\* Text s from index i on, at nesting depth, is laid out with two spaces per
\* level: a non-empty array or object breaks the line after its opening
\* bracket, after every comma and before its closing bracket, every line is
\* indented by twice its depth, and a colon is followed by one space.
Indented(s, i, depth) ==
    IF i > Len(s) THEN depth = 0
    ELSE CASE s[i] = "\"" -> Indented(s, StringEnd(s, i + 1), depth)
           [] s[i] \in {"[", "{"} ->
                 /\ i < Len(s)
                 /\ IF s[i + 1] \in {"]", "}"} THEN Indented(s, i + 2, depth)
                    ELSE s[i + 1] = "\n" /\ Indented(s, i + 1, depth + 1)
           [] s[i] \in {"]", "}"} -> Indented(s, i + 1, depth - 1)
           [] s[i] = "," -> i < Len(s) /\ s[i + 1] = "\n" /\ Indented(s, i + 1, depth)
           [] s[i] = ":" -> /\ i + 1 < Len(s)
                            /\ s[i + 1] = " "
                            /\ s[i + 2] /= " "
                            /\ Indented(s, i + 2, depth)
           [] s[i] = "\n" ->
                 LET j == SkipSpaces(s, i + 1)
                 IN  /\ j <= Len(s)
                     /\ j - i - 1 = 2 * (IF s[j] \in {"]", "}"} THEN depth - 1 ELSE depth)
                     /\ Indented(s, j, depth)
           [] s[i] = " " -> FALSE
           [] OTHER -> Indented(s, i + 1, depth)

\* The upstream answered the invocation on c with a 2xx response whose body is JSON.
SucceededUpstream(c) ==
    /\ call[c].phase = "done"
    /\ call[c].response.has
    /\ ok(call[c].response.v.status)
    /\ parseJSON(call[c].response.v.body).ok

\* C7: after a 2xx response with JSON payload P the envelope has exactly one
\* content block, of type text, whose string is laid out with 2-space
\* indentation and parses to P again.
C7_RoundTrip ==
    \A c \in Conns :
        SucceededUpstream(c) =>
            /\ ~call[c].isError
            /\ call[c].error = "none"
            /\ Len(call[c].content) = 1
            /\ call[c].content[1].type = "text"
            /\ parseJSON(call[c].content[1].text).ok
            /\ parseJSON(call[c].content[1].text).v = parseJSON(call[c].response.v.body).v
            /\ Indented(call[c].content[1].text, 1, 0)

\* A list of two province records came back and was returned.
C7_Witness ==
    /\ SucceededUpstream("c1")
    /\ parseJSON(call["c1"].response.v.body).v.j = "arr"
    /\ Len(parseJSON(call["c1"].response.v.body).v.a) = 2
    /\ ~call["c1"].isError

\* C8 as stated: every successful dispatch of a registered tool issued exactly
\* one upstream call, and no dispatch issued more than one.
C8_Original ==
    \A c \in Conns :
        /\ call[c].calls <= 1
        /\ call[c].phase = "done" /\ call[c].error = "none" => call[c].calls = 1

\* The text k=v of a query entry.
EntryText(e) == e[1] \o "=" \o String(e[2])

RECURSIVE AmpJoin(_)
AmpJoin(es) == IF Len(es) = 1 THEN EntryText(es[1])
               ELSE EntryText(es[1]) \o "&" \o AmpJoin(Tail(es))

\* The query part of a URL for the non-empty entries of the parameters q.
QueryPart(q) ==
    LET kept == IF q.has THEN SelectSeq(q.v, LAMBDA e : String(e[2]) /= "" /\ e[2] /= Absent)
                ELSE <<>>
    IN  IF kept = <<>> THEN "" ELSE "?" \o AmpJoin(kept)

\* C9: an upstream call made with path p, query parameters q and session
\* credential K targets https://api.gis.ph/v1 + p with the non-empty entries
\* of q, uses the method the tool gives (GET when none) and carries
\* Authorization: Bearer K; /provinces/0128 with credential ABC is
\* GET https://api.gis.ph/v1/provinces/0128 with Authorization: Bearer ABC.
C9_Request ==
    \A c \in Conns :
        call[c].request.has =>
            LET i == call[c].inv
                rq == call[c].request.v
                plan == handler(variant, i.tool, parsedArgs(SchemaOf(i), i.args))
            IN  /\ rq.url = "https://api.gis.ph/v1" \o plan.path \o QueryPart(plan.params)
                /\ rq.method = (IF plan.method = Null THEN "GET" ELSE plan.method)
                /\ rq.authorization = "Bearer " \o key[c]
                /\ i.tool = "get_province" /\ i.args.province_code = Str("0128") =>
                       /\ rq.method = "GET"
                       /\ rq.url = "https://api.gis.ph/v1/provinces/0128"
                       /\ rq.authorization = "Bearer ABC"

\* create_dataset is in flight as a POST to /datasets.
C9_Witness ==
    /\ call["c1"].phase = "awaiting"
    /\ call["c1"].inv.tool = "create_dataset"
    /\ call["c1"].request.v.method = "POST"
    /\ call["c1"].request.v.url = "https://api.gis.ph/v1/datasets"
    /\ call["c1"].request.v.authorization = "Bearer ABC"

\* The three digits of a status code.
StatusDigits(st) ==
    <<DigitChars[(st \div 100) + 1], DigitChars[((st \div 10) % 10) + 1],
      DigitChars[(st % 10) + 1]>>

\* The upstream answered the invocation on c with a status that is not 2xx.
FailedUpstream(c) ==
    /\ call[c].phase = "done"
    /\ call[c].response.has
    /\ ~(call[c].response.v.status \in 200..299)

\* C10: after a non-2xx response with status s and body text b the invocation
\* ends as one tool-level error whose text carries s and, unparsed and
\* unchanged, b; no success envelope is produced, the upstream was called
\* once, and the connection keeps its session for the next invocation.
C10_UpstreamError ==
    \A c \in Conns :
        FailedUpstream(c) =>
            LET b == call[c].response.v.body
                st == call[c].response.v.status
            IN  /\ call[c].error = "UpstreamError"
                /\ call[c].isError
                /\ call[c].calls = 1
                /\ Len(call[c].content) = 1
                /\ call[c].content[1].type = "text"
                /\ LET text == call[c].content[1].text
                   IN  /\ Len(text) = Len(ErrorPrefix) + 5 + Len(b)
                       /\ SubSeq(text, 1, Len(ErrorPrefix)) = ErrorPrefix
                       /\ SubSeq(text, Len(ErrorPrefix) + 1, Len(ErrorPrefix) + 3)
                              = StatusDigits(st)
                       /\ SubSeq(text, Len(text) - Len(b) + 1, Len(text)) = b
                /\ key[c] \notin {Null, ""}
                /\ variant \in AgentVariants => actor[c] = "live"

\* A 500 whose body is valid JSON is reported as an error with the body as sent.
C10_Witness ==
    /\ FailedUpstream("c1")
    /\ call["c1"].response.v.status = 500
    /\ parseJSON(call["c1"].response.v.body).ok
    /\ Len(call["c1"].response.v.body) > 20
    /\ call["c1"].isError

\* The request in hand is a pre-flight carrying no credential.
PreflightWithoutCredential ==
    /\ Handling
    /\ req.method = "OPTIONS"
    /\ req.header \in {Null, ""}
    /\ req.query \in {Null, ""}

\* C11 as stated: every OPTIONS request, on any path and without a credential,
\* gets the CORS negotiation response; it is never answered 401 and never
\* reaches a transport adapter.
C11_Original ==
    PreflightWithoutCredential =>
        /\ res.kind = "cors"
        /\ res.status /= 401
        /\ res.adapter = "none"

\* The request in hand is no pre-flight and names none of the served paths.
UnknownPath ==
    /\ Handling
    /\ req.method /= "OPTIONS"
    /\ req.path \notin {"/", "/sse", "/sse/message", "/mcp"}

\* C12 as stated: every non-OPTIONS request to a path other than /, /sse,
\* /sse/message and /mcp is answered 404, binds no session and causes no
\* upstream call.
C12_Original ==
    UnknownPath => res.status = 404 /\ res.kind = "notfound" /\ NothingStarted

\* The credential the worker resolves from the request in hand: the first
\* source that is present, in the variant's order.
ResolvedCredential ==
    IF FirstSource /= Null THEN FirstSource
    ELSE IF SecondSource /= Null THEN SecondSource
    ELSE ""

\* The credential gate of the agent workers precedes their routing.
GateFirst == variant \in AgentVariants /\ ResolvedCredential = ""

\* C12 amended: such a request binds no session, reaches no transport adapter
\* and causes no upstream call; it is answered 404 when it carries a
\* credential, and also without one by the Hono app, while the agent workers
\* answer it 401 when the credential they resolve is absent or empty.
C12_NotFound ==
    UnknownPath =>
        /\ NothingStarted
        /\ IF GateFirst
           THEN res.status = 401 /\ res.kind = "unauthorized"
           ELSE res.status = 404 /\ res.kind = "notfound"

\* An agent worker answers 404 to an unknown path that carries a credential
\* and a tool invocation.
C12_Witness ==
    /\ UnknownPath
    /\ variant = VPersisted
    /\ req.query = "ABC"
    /\ HasInv(req)
    /\ res.status = 404
    /\ call[req.conn].phase = "idle"

\* What belongs to connection c.
Session(c) == <<key[c], actor[c], props[c], call[c]>>

\* The Authorization value made from connection c's own credential.
OwnBearer(c) == "Bearer " \o (IF key[c] = Null THEN "undefined" ELSE key[c])

\* The values the credential of connection c can be taken from in a step: what
\* it was, the props of c's own actor, the credential sources of a request to
\* c, or nothing.
OwnSources(c) ==
    {key[c], props'[c], "", Null}
    \cup (IF Handling' /\ req'.conn = c THEN {req'.header, req'.query} ELSE {})

\* C13: a step touches the session of one connection only, that of the request
\* it handles if it handles one; a connection's credential is set from that
\* connection's own request or actor only; and an upstream call started for an
\* invocation on a connection carries Authorization: Bearer with that
\* connection's credential.
C13_Isolated ==
    [][\A c \in Conns :
          /\ Session(c)' /= Session(c) =>
                /\ \A d \in Conns \ {c} : Session(d)' = Session(d)
                /\ ~Handling /\ Handling' => req'.conn = c
          /\ key'[c] \in OwnSources(c)
          /\ call[c].phase /= "awaiting" /\ call'[c].phase = "awaiting" =>
                call'[c].request.v.authorization = OwnBearer(c)']_vars

\* Two connections hold different credentials and each has a call in flight
\* under its own.
C13_Witness ==
    /\ key["c1"] = "ABC"
    /\ key["c2"] = "SECRET"
    /\ call["c1"].phase = "awaiting"
    /\ call["c2"].phase = "awaiting"
    /\ call["c1"].request.v.authorization = "Bearer ABC"
    /\ call["c2"].request.v.authorization = "Bearer SECRET"

\* C14: an invocation whose upstream call has completed, with a result or with
\* an error, gets its response to the caller, whatever the call of another
\* connection does: stay pending for ever, fail, or complete.
C14_Progress ==
    \A c \in Conns : (call[c].phase = "done") ~> (call[c].phase = "idle")

\* The call of one connection is pending while that of the other has completed.
C14_Witness ==
    /\ call["c1"].phase = "awaiting"
    /\ call["c2"].phase = "done"
    /\ call["c2"].response.has
    /\ ~call["c2"].isError

\* C15: in the persisted worker, an initialization of a connection's actor
\* that is given an empty or absent credential leaves the stored credential K
\* as it is, the credential of a running actor does not change, and every
\* upstream call started on that actor carries Authorization: Bearer K.
C15_Resumed ==
    [][variant = VPersisted =>
          \A c \in Conns :
              /\ \A p \in {Null, ""} : Resume(c, p) => key'[c] = key[c]
              /\ actor[c] = "live" /\ actor'[c] = "live" => key'[c] = key[c]
              /\ actor'[c] = "live" /\ props'[c] \in {Null, ""}
                    /\ call[c].phase /= "awaiting" /\ call'[c].phase = "awaiting" =>
                        /\ key[c] \notin {Null, ""} => 
                               call'[c].request.v.authorization = "Bearer " \o key[c]
                        /\ call'[c].request.v.authorization = "Bearer " \o key'[c]]_vars

\* An actor resumed without a credential serves a call that came with another
\* credential under the one it had stored.
C15_Witness ==
    /\ variant = VPersisted
    /\ actor["c1"] = "live"
    /\ props["c1"] \in {Null, ""}
    /\ key["c1"] = "ABC"
    /\ Handling /\ req.conn = "c1" /\ req.header = "SECRET"
    /\ call["c1"].phase = "awaiting"
    /\ call["c1"].request.v.authorization = "Bearer ABC"

\* The upstream request rq has a query entry k whose value reads text.
HasEntry(rq, k, text) ==
    \E e \in 1..Len(rq.entries) : rq.entries[e][1] = k /\ String(rq.entries[e][2]) = text

\* C16 as stated: the upstream request of search_location, get_demographics
\* and reverse_geocode carries the mapped query key of every required
\* parameter with the value given, whatever accepted value that is: q for
\* query, code and level for location_code and level, lat and lng as text.
C16_Original ==
    \A c \in Conns :
        call[c].request.has =>
            LET i == call[c].inv
                rq == call[c].request.v
            IN  /\ i.tool = "search_location" => HasEntry(rq, "q", i.args.query.s)
                /\ i.tool = "get_demographics" =>
                       /\ HasEntry(rq, "code", i.args.location_code.s)
                       /\ HasEntry(rq, "level", i.args.level.s)
                /\ i.tool = "reverse_geocode" =>
                       /\ HasEntry(rq, "lat", ToString(i.args.lat.n))
                       /\ HasEntry(rq, "lng", ToString(i.args.lng.n))

\* The parameters create_dataset and update_dataset route to the body.
BodyParams(tool) ==
    IF tool = "create_dataset"
    THEN {"name", "description", "data_type", "geometry_type", "srid"}
    ELSE {"name", "description"}

\* C17 as stated: create_dataset issues POST /datasets and update_dataset
\* PATCH /datasets/{dataset_id}, with a body that holds every parameter the
\* caller supplied, with its value, and no parameter the caller left out.
C17_Original ==
    \A c \in Conns :
        call[c].request.has /\ call[c].inv.tool \in {"create_dataset", "update_dataset"} =>
            LET i == call[c].inv
                rq == call[c].request.v
            IN  /\ rq.method = (IF i.tool = "create_dataset" THEN "POST" ELSE "PATCH")
                /\ rq.url = "https://api.gis.ph/v1/datasets"
                              \o (IF i.tool = "create_dataset" THEN ""
                                  ELSE "/" \o i.args.dataset_id.s)
                /\ rq.body.has
                /\ \A n \in BodyParams(i.tool) :
                       IF i.args[n] = Absent
                       THEN \A e \in 1..Len(rq.body.v) : rq.body.v[e][1] /= n
                       ELSE \E e \in 1..Len(rq.body.v) : rq.body.v[e] = <<n, i.args[n]>>

\* Text sub occurs in text.
Contains(text, sub) ==
    \E k \in 1..(Len(text) - Len(sub) + 1) : SubSeq(text, k, k + Len(sub) - 1) = sub

\* The first characters of a credential, three at most.
KeyPrefix(k) == SubSeq(KeyChars[k], 1, 3)

\* C18 as stated: the text of every returned envelope comes from an upstream
\* response, payload or error, and holds no prefix of the credential.
C18_Original ==
    \A c \in Conns :
        call[c].phase = "done" /\ Len(call[c].content) > 0 =>
            /\ call[c].response.has
            /\ call[c].calls = 1
            /\ key[c] \in DOMAIN KeyChars =>
                   ~Contains(call[c].content[1].text, KeyPrefix(key[c]))

====
